---- MODULE Spec2Model ----
(***************************************************************************)
(* The secure WebRTC proxy of the Roboflow sample application.             *)
(*                                                                         *)
(* server.js: POST /api/init-webrtc validates a JSON body, attaches the    *)
(* server-held ROBOFLOW_API_KEY to a vendor client and forwards the offer; *)
(* GET /api/health reports whether the key is configured.                  *)
(*                                                                         *)
(* JavaScript values are modelled as follows.  A value that is a string    *)
(* in the request (sdp, type, workspaceName, ...) is a TLA+ string, the    *)
(* string Undef standing for a missing property.  A value that may be an   *)
(* object is a record with a field kind; [kind |-> "undefined"] is the     *)
(* JavaScript undefined.                                                   *)
(***************************************************************************)
EXTENDS Integers, Sequences, FiniteSets, TLC

\* ------------------------------------------------------------------------
\* Bounds
\* ------------------------------------------------------------------------

\* Number of POST /api/init-webrtc requests of one behaviour; they may all
\* be awaiting the vendor at the same time.
MaxReqs == 2

\* ------------------------------------------------------------------------
\* JavaScript values
\* ------------------------------------------------------------------------

\* A missing property / an unset environment variable.
Undef == "undefined"

\* The JavaScript value undefined where an object is expected.
UndefObj == [kind |-> "undefined"]

\* !v for a string-valued property: undefined and "" are falsy.
Falsy(v) == v \in {Undef, ""}

\* !v for an object-valued property.
FalsyObj(v) == v.kind = "undefined"

\* ------------------------------------------------------------------------
\* Requests
\* ------------------------------------------------------------------------

SDP == "v=0"
OFFER == "offer"
WORKFLOW_SPEC == "WORKFLOW_SPEC"

\* A complete offer.
ValidOffer == [kind |-> "object", sdp |-> SDP, type |-> OFFER]

\* The offers a client can send: none, each way of missing or emptying one
\* of the two fields, and a complete one.
Offers ==
    {UndefObj, ValidOffer}
    \cup {[kind |-> "object", sdp |-> s, type |-> OFFER] : s \in {Undef, ""}}
    \cup {[kind |-> "object", sdp |-> SDP, type |-> t] : t \in {Undef, ""}}

\* A workflow-parameter object; the auxiliary fields are forwarded as they
\* are.
Params(w, n, i) ==
    [kind |-> "object", workflowSpec |-> w, workspaceName |-> n,
     workflowId |-> i, imageInputName |-> "image",
     streamOutputNames |-> "output_image", dataOutputNames |-> Undef,
     workflowParameters |-> Undef, threadPoolWorkers |-> Undef]

\* Parameters that identify the workflow by its specification.
SpecParams == Params(WORKFLOW_SPEC, Undef, Undef)

\* The workflow parameters a client can send: none, every combination of
\* workspaceName and workflowId without a specification, a specification
\* alone, and a specification with both names.
WrtcParams ==
    {UndefObj, SpecParams, Params(WORKFLOW_SPEC, "ws", "wf")}
    \cup {Params(Undef, n, i) : n \in {Undef, "ws"}, i \in {Undef, "wf"}}

\* req.body after express.json(): undefined when no JSON body was parsed,
\* else an object: every offer without parameters and with a specification,
\* and the complete offer with every parameter object.
Bodies ==
    {UndefObj}
    \cup {[kind |-> "object", offer |-> o, wrtcparams |-> p] :
          o \in Offers, p \in {UndefObj, SpecParams}}
    \cup {[kind |-> "object", offer |-> ValidOffer, wrtcparams |-> p] :
          p \in WrtcParams}

\* ------------------------------------------------------------------------
\* Process environment
\* ------------------------------------------------------------------------

\* Values of process.env.ROBOFLOW_API_KEY.
Keys == {"rf_key_A", "rf_key_B"}
KeyEnv == {Undef, ""} \cup Keys

\* Values of process.env.ROBOFLOW_SERVER_URL.
UrlEnv == {Undef, "https://serverless.example"}

\* ------------------------------------------------------------------------
\* Vendor outcomes
\* ------------------------------------------------------------------------

\* What client.initialise_webrtc_worker resolves with: a session answer, or
\* a value JSON.stringify cannot serialise.
ANSWER == [kind |-> "object", sdp |-> "v=0 answer", type |-> "answer",
           context |-> [request_id |-> "req-1", pipeline_id |-> "pipe-1"]]
CIRCULAR == [kind |-> "circular"]
Answers == {ANSWER, CIRCULAR}

\* What the vendor can throw or reject with: an Error with a message, an
\* Error with an empty message, an object without message, and undefined.
Errors ==
    {[kind |-> "Error", message |-> "boom"],
     [kind |-> "Error", message |-> ""],
     [kind |-> "object"],
     UndefObj}

\* error.message
Message(error) == IF "message" \in DOMAIN error THEN error.message ELSE Undef

VARIABLES
    apiKey,      \* process.env.ROBOFLOW_API_KEY
    serverUrl,   \* process.env.ROBOFLOW_SERVER_URL
    reqs,        \* the POST /api/init-webrtc exchanges, in arrival order
    health,      \* the last GET /api/health response
    twinKey,     \* the credential of a second run that differs only in it
    twinReqs,    \* the exchanges of the second run, same inputs
    twinHealth   \* the last health response of the second run

\* The page of the browser (app.js).
VARIABLES
    workflowMode,       \* the selected tab: "example" or "custom"
    workspaceField,     \* the text of the workspaceName input
    workflowField,      \* the text of the workflowId input
    activeConnection,   \* NULL, or the connection held
    startDisabled,      \* startBtn.disabled
    stopDisabled,       \* stopBtn.disabled
    statusText,         \* statusEl.textContent
    videoSrc,           \* videoEl.srcObject: NULL, or the stream of a connection
    dataMessageCount,   \* the data channel message counter
    dataPreview,        \* dataPreviewEl.textContent
    conns,              \* the connections webrtc.useStream resolved with
    useStreamCalls,     \* the wrtcParams of the webrtc.useStream calls made
    starts,             \* the activations of start(), in invocation order
    stops,              \* the activations of stop(), in invocation order
    teardowns,          \* the pagehide and beforeunload events handled
    warnings            \* the "Already connected" warnings logged

serverVars == <<apiKey, serverUrl, reqs, health, twinKey, twinReqs, twinHealth>>

uiVars == <<workflowMode, workspaceField, workflowField, activeConnection,
            startDisabled, stopDisabled, statusText, videoSrc,
            dataMessageCount,
            dataPreview, conns, useStreamCalls, starts, stops, teardowns,
            warnings>>

vars == <<serverVars, uiVars>>

\* ------------------------------------------------------------------------
\* POST /api/init-webrtc
\* ------------------------------------------------------------------------

OFFER_ERROR == "Missing required field: offer with sdp and type"
PARAMS_ERROR == "Missing required field: wrtcparams.workflowSpec"
CONFIG_ERROR == "Server configuration error: API key not configured"
FALLBACK_ERROR == "Failed to initialize WebRTC worker"

\* The TypeError of  const { offer, wrtcparams } = req.body  on undefined.
DestructureError ==
    [kind |-> "Error",
     message |-> "Cannot destructure property 'offer' of 'req.body' as it is undefined."]

\* The TypeError JSON.stringify throws inside res.json.
StringifyError ==
    [kind |-> "Error", message |-> "Converting circular structure to JSON"]

\* No call of the vendor client has thrown.
NoThrow == [kind |-> "none"]

\* What InferenceHTTPClient.init can do when called: return, or throw.
InitOutcomes == {NoThrow, [kind |-> "Error", message |-> "boom"]}

NoResponse == [kind |-> "none"]
NoOutcome == [kind |-> "none"]

\* One activation of the handler: the request body, where the handler is
\* (awaiting the vendor, done, or failed: its promise rejected), how many
\* times it sent a response and which, the arguments of its vendor calls,
\* and how the vendor call it awaited settled.
NewExchange(body) ==
    [body |-> body, pc |-> "running", sent |-> 0, response |-> NoResponse,
     initCalls |-> <<>>, workerCalls |-> <<>>, outcome |-> NoOutcome]

\* res.status(status).json(body)
Respond(ex, status, body) ==
    [ex EXCEPT !.pc = "done", !.sent = @ + 1,
               !.response = [kind |-> "json", status |-> status, body |-> body]]

\* CatchBlock with the vendor's message dropped.
CatchBlock_AlwaysFallback(ex, error) ==
    IF error.kind = "undefined"
    THEN [ex EXCEPT !.pc = "failed"]
    ELSE Respond(ex, 500, [error |-> FALLBACK_ERROR])

\* The catch block.  error.message on undefined (or null) throws inside the
\* catch block: the handler's promise rejects and the handler sends nothing.
CatchBlock(ex, error) ==
    IF error.kind = "undefined"
    THEN [ex EXCEPT !.pc = "failed"]
    ELSE Respond(ex, 500,
                 [error |-> IF Falsy(Message(error))
                            THEN FALLBACK_ERROR ELSE Message(error)])

\* OfferInvalid without the test of offer.type.
OfferInvalid_NoTypeTest(offer) ==
    FalsyObj(offer) \/ Falsy(offer.sdp)

\* !offer || !offer.sdp || !offer.type
OfferInvalid(offer) ==
    FalsyObj(offer) \/ Falsy(offer.sdp) \/ Falsy(offer.type)

\* ParamsInvalid without the test of wrtcparams.workflowSpec.
ParamsInvalid_OnlyAbsent(wrtcparams) ==
    FalsyObj(wrtcparams)

\* !wrtcparams || !wrtcparams.workflowSpec
ParamsInvalid(wrtcparams) ==
    FalsyObj(wrtcparams) \/ Falsy(wrtcparams.workflowSpec)

\* The argument of InferenceHTTPClient.init.
ClientArgs(key, url) == [apiKey |-> key, serverUrl |-> url]

\* The argument of client.initialise_webrtc_worker.
WorkerArgs(offer, wrtcparams) ==
    [offer |-> offer,
     workflowSpec |-> wrtcparams.workflowSpec,
     config |-> [imageInputName |-> wrtcparams.imageInputName,
                 streamOutputNames |-> wrtcparams.streamOutputNames,
                 dataOutputNames |-> wrtcparams.dataOutputNames,
                 workflowParameters |-> wrtcparams.workflowParameters,
                 threadPoolWorkers |-> wrtcparams.threadPoolWorkers]]

\* InitWebrtcEntry with the credential validated first.
InitWebrtcEntry_KeyFirst(body, key, url, thrown) ==
    LET ex == NewExchange(body) IN
    IF body.kind = "undefined"
    THEN CatchBlock(ex, DestructureError)
    ELSE IF Falsy(key)
    THEN Respond(ex, 500, [error |-> CONFIG_ERROR])
    ELSE IF OfferInvalid(body.offer)
    THEN Respond(ex, 400, [error |-> OFFER_ERROR])
    ELSE IF ParamsInvalid(body.wrtcparams)
    THEN Respond(ex, 400, [error |-> PARAMS_ERROR])
    ELSE IF thrown # NoThrow
    THEN CatchBlock([ex EXCEPT !.initCalls = <<ClientArgs(key, url)>>,
                               !.outcome = [kind |-> "thrown", value |-> thrown]],
                    thrown)
    ELSE [ex EXCEPT !.pc = "awaiting",
                    !.initCalls = <<ClientArgs(key, url)>>,
                    !.workerCalls = <<WorkerArgs(body.offer, body.wrtcparams)>>]

\* The handler from its entry to its first await (or to its response):
\* the three validations in order, then the vendor client and its call.
InitWebrtcEntry(body, key, url, thrown) ==
    LET ex == NewExchange(body) IN
    IF body.kind = "undefined"
    THEN CatchBlock(ex, DestructureError)
    ELSE IF OfferInvalid(body.offer)
    THEN Respond(ex, 400, [error |-> OFFER_ERROR])
    ELSE IF ParamsInvalid(body.wrtcparams)
    THEN Respond(ex, 400, [error |-> PARAMS_ERROR])
    ELSE IF Falsy(key)
    THEN Respond(ex, 500, [error |-> CONFIG_ERROR])
    ELSE IF thrown # NoThrow
    THEN CatchBlock([ex EXCEPT !.initCalls = <<ClientArgs(key, url)>>,
                               !.outcome = [kind |-> "thrown", value |-> thrown]],
                    thrown)
    ELSE [ex EXCEPT !.pc = "awaiting",
                    !.initCalls = <<ClientArgs(key, url)>>,
                    !.workerCalls = <<WorkerArgs(body.offer, body.wrtcparams)>>]

\* SendAnswer with only sdp and type copied into the response.
SendAnswer_DropsContext(ex, answer) ==
    IF answer.kind = "circular"
    THEN CatchBlock(ex, StringifyError)
    ELSE Respond(ex, 200, [kind |-> answer.kind, sdp |-> answer.sdp,
                           type |-> answer.type])

\* res.json(answer): status 200 and the answer as the body; JSON.stringify
\* throws on a value it cannot serialise, before anything is sent.
SendAnswer(ex, answer) ==
    IF answer.kind = "circular"
    THEN CatchBlock(ex, StringifyError)
    ELSE Respond(ex, 200, answer)

\* The handler after the awaited vendor call resolved.
AfterResolve(ex, answer) ==
    SendAnswer([ex EXCEPT !.outcome = [kind |-> "resolved", value |-> answer]],
               answer)

\* AfterReject with one retry of the vendor call before giving up.
AfterReject_Retries(ex, error) ==
    IF Len(ex.workerCalls) < 2
    THEN [ex EXCEPT !.workerCalls = Append(@, @[1])]
    ELSE CatchBlock([ex EXCEPT !.outcome = [kind |-> "rejected", value |-> error]],
                    error)

\* The handler after the awaited vendor call rejected.
AfterReject(ex, error) ==
    CatchBlock([ex EXCEPT !.outcome = [kind |-> "rejected", value |-> error]],
               error)

\* ------------------------------------------------------------------------
\* GET /api/health
\* ------------------------------------------------------------------------

\* HasApiKey that takes an empty credential for a configured one.
HasApiKey_EmptyCounts(key) == key # Undef

\* !!process.env.ROBOFLOW_API_KEY
HasApiKey(key) == ~Falsy(key)

\* HealthResponse with the credential echoed in the message.
HealthResponse_EchoesKey(key) ==
    [kind |-> "json", status |-> 200,
     body |-> [status |-> "ok",
               apiKeyConfigured |-> HasApiKey(key),
               message |-> IF HasApiKey(key)
                           THEN key
                           ELSE "Warning: ROBOFLOW_API_KEY not configured"]]

\* The body of the health response.
HealthResponse(key) ==
    [kind |-> "json", status |-> 200,
     body |-> [status |-> "ok",
               apiKeyConfigured |-> HasApiKey(key),
               message |-> IF HasApiKey(key)
                           THEN "Server is ready"
                           ELSE "Warning: ROBOFLOW_API_KEY not configured"]]

\* ------------------------------------------------------------------------
\* The page: values
\* ------------------------------------------------------------------------

\* Number of user and page events (invocations of start(), each counted
\* twice, and of stop(), teardown events) and of data channel messages of one
\* behaviour.
MaxEvents == 4
MaxData == 1

\* null, for activeConnection and videoEl.srcObject; connections are
\* numbered from 1 in the order webrtc.useStream resolved with them.
NULL == 0

\* The texts of the form inputs, as sequences of characters.
Blank == <<>>
Spaces == <<" ">>
PaddedWs == <<" ", "w", "s", " ">>
PaddedWf == <<"w", "f", " ">>

\* String.prototype.trim on a sequence of characters.
RECURSIVE TrimLeft(_)
TrimLeft(t) ==
    IF t # <<>> /\ Head(t) = " " THEN TrimLeft(Tail(t)) ELSE t

RECURSIVE TrimRight(_)
TrimRight(t) ==
    IF t # <<>> /\ t[Len(t)] = " " THEN TrimRight(SubSeq(t, 1, Len(t) - 1)) ELSE t

Trim(t) == TrimRight(TrimLeft(t))

CONFIG_INPUT_ERROR == "Please enter both Workspace Name and Workflow ID"
API_KEY_STATUS == "Error: Server API key not configured"
CONNECTING == "Connecting..."
CONNECTED == "Connected - Processing video"
STOPPING == "Stopping..."
IDLE == "Idle"

\* What the awaited calls of the page can reject with: an Error with a
\* message, the proxy's credential error, an object without message, and
\* undefined.
PageErrors ==
    {[kind |-> "Error", message |-> "boom"],
     [kind |-> "Error", message |-> CONFIG_ERROR],
     [kind |-> "object"],
     UndefObj}

\* err.message.includes('API key')
IncludesApiKey(message) == message = CONFIG_ERROR

\* The controls as the document declares them: start enabled, stop
\* disabled, the status idle.
InitialControls ==
    [startDisabled |-> FALSE, stopDisabled |-> TRUE, status |-> IDLE]

\* The page after its script ran, with the given texts in the two inputs of
\* the custom tab.
PageLoaded(ws, wf) ==
    /\ workflowMode = "example"
    /\ workspaceField = ws
    /\ workflowField = wf
    /\ activeConnection = NULL
    /\ startDisabled = InitialControls.startDisabled
    /\ stopDisabled = InitialControls.stopDisabled
    /\ statusText = InitialControls.status
    /\ videoSrc = NULL
    /\ dataMessageCount = 0
    /\ dataPreview = ""
    /\ conns = <<>>
    /\ useStreamCalls = <<>>
    /\ starts = <<>>
    /\ stops = <<>>
    /\ teardowns = 0
    /\ warnings = 0

\* ------------------------------------------------------------------------
\* The state machine
\* ------------------------------------------------------------------------

\* dotenv.config() has loaded the environment; no request has arrived.  The
\* second run has the same environment, except for another non-empty
\* credential when the first has one.
Init ==
    /\ apiKey \in KeyEnv
    /\ serverUrl \in UrlEnv
    /\ twinKey \in (IF apiKey \in Keys THEN Keys \ {apiKey} ELSE {apiKey})
    /\ reqs = <<>>
    /\ twinReqs = <<>>
    /\ health = NoResponse
    /\ twinHealth = NoResponse
    /\ PageLoaded(Blank, Blank)

\* A request arrives and its handler runs to its first await.
PostInitWebrtc(body, thrown) ==
    /\ Len(reqs) < MaxReqs
    /\ reqs' = Append(reqs, InitWebrtcEntry(body, apiKey, serverUrl, thrown))
    /\ twinReqs' = Append(twinReqs,
                          InitWebrtcEntry(body, twinKey, serverUrl, thrown))
    /\ UNCHANGED <<apiKey, serverUrl, twinKey, health, twinHealth, uiVars>>

\* The vendor call of request i resolves.
VendorResolves(i, answer) ==
    /\ reqs[i].pc = "awaiting"
    /\ reqs' = [reqs EXCEPT ![i] = AfterResolve(@, answer)]
    /\ twinReqs' = [twinReqs EXCEPT ![i] =
                        IF @.pc = "awaiting" THEN AfterResolve(@, answer) ELSE @]
    /\ UNCHANGED <<apiKey, serverUrl, twinKey, health, twinHealth, uiVars>>

\* The vendor call of request i rejects.
VendorRejects(i, error) ==
    /\ reqs[i].pc = "awaiting"
    /\ reqs' = [reqs EXCEPT ![i] = AfterReject(@, error)]
    /\ twinReqs' = [twinReqs EXCEPT ![i] =
                        IF @.pc = "awaiting" THEN AfterReject(@, error) ELSE @]
    /\ UNCHANGED <<apiKey, serverUrl, twinKey, health, twinHealth, uiVars>>

\* A health request arrives and is answered.
GetHealth ==
    /\ health' = HealthResponse(apiKey)
    /\ twinHealth' = HealthResponse(twinKey)
    /\ UNCHANGED <<apiKey, serverUrl, twinKey, reqs, twinReqs, uiVars>>

Next ==
    \/ \E body \in Bodies, thrown \in InitOutcomes : PostInitWebrtc(body, thrown)
    \/ \E i \in 1..Len(reqs), answer \in Answers : VendorResolves(i, answer)
    \/ \E i \in 1..Len(reqs), error \in Errors : VendorRejects(i, error)
    \/ GetHealth

Spec == Init /\ [][Next]_vars

\* ------------------------------------------------------------------------
\* The words of the claims
\* ------------------------------------------------------------------------

\* The exchanges of the run.
Exchanges == 1..Len(reqs)

\* The body is an object with no offer, or with an offer whose sdp or type
\* is missing or empty.
OfferMissing(body) ==
    /\ body.kind = "object"
    /\ \/ body.offer.kind = "undefined"
       \/ body.offer.sdp \in {Undef, ""}
       \/ body.offer.type \in {Undef, ""}

\* The body is an object with an offer of non-empty sdp and type.
OfferPresent(body) ==
    /\ body.kind = "object"
    /\ body.offer.kind = "object"
    /\ body.offer.sdp \notin {Undef, ""}
    /\ body.offer.type \notin {Undef, ""}

\* The parameters contain workflowSpec.
HasSpec(p) == p.kind = "object" /\ p.workflowSpec # Undef

\* The parameters contain both workspaceName and workflowId.
HasNamePair(p) ==
    p.kind = "object" /\ p.workspaceName # Undef /\ p.workflowId # Undef

\* The parameters identify a workflow in one of the two modes.
Identified(p) == HasSpec(p) \/ HasNamePair(p)

\* A valid request: a valid offer and a workflow identification.
ValidRequest(body) == OfferPresent(body) /\ Identified(body.wrtcparams)

\* The credential is configured: set, and not empty.
Configured(key) == key \notin {Undef, ""}

\* The status of the response of an exchange, 0 when none was sent.
StatusOf(ex) == IF ex.response.kind = "none" THEN 0 ELSE ex.response.status

\* The exchange invoked no vendor operation.
NoVendorCall(ex) == ex.initCalls = <<>> /\ ex.workerCalls = <<>>

\* The response with a status and an error message.
ErrorResponse(status, message) ==
    [kind |-> "json", status |-> status, body |-> [error |-> message]]

\* ------------------------------------------------------------------------
\* Claims
\* ------------------------------------------------------------------------

\* C1: a request whose body has no offer, or an offer with a missing or empty
\* sdp or type, is answered once, with status 400 and the error message that
\* names the offer field, and invokes no vendor operation.
C1_InvalidOfferRejected ==
    \A i \in Exchanges :
        OfferMissing(reqs[i].body) =>
            /\ reqs[i].response = ErrorResponse(400, OFFER_ERROR)
            /\ reqs[i].sent = 1
            /\ NoVendorCall(reqs[i])

\* C1's case: an offer object without type, sent with valid workflow
\* parameters and a configured credential, has been answered.
C1_Witness ==
    /\ Configured(apiKey)
    /\ \E i \in Exchanges :
        /\ reqs[i].body.kind = "object"
        /\ reqs[i].body.offer.kind = "object"
        /\ reqs[i].body.offer.type = Undef
        /\ reqs[i].body.wrtcparams = SpecParams
        /\ reqs[i].pc = "done"

\* C2: a request with a valid offer whose workflow parameters are absent, or
\* contain neither workflowSpec nor both workspaceName and workflowId, is
\* answered with status 400 and invokes no vendor operation.
C2_MissingWorkflowRejected ==
    \A i \in Exchanges :
        (OfferPresent(reqs[i].body) /\ ~Identified(reqs[i].body.wrtcparams)) =>
            /\ StatusOf(reqs[i]) = 400
            /\ reqs[i].sent = 1
            /\ NoVendorCall(reqs[i])

\* C2's case: a valid offer with parameters that hold workspaceName alone,
\* and one with no parameters, have been answered under a configured
\* credential.
C2_Witness ==
    /\ Configured(apiKey)
    /\ \E i, j \in Exchanges :
        /\ OfferPresent(reqs[i].body)
        /\ reqs[i].body.wrtcparams = Params(Undef, "ws", Undef)
        /\ reqs[i].pc = "done"
        /\ OfferPresent(reqs[j].body)
        /\ reqs[j].body.wrtcparams = UndefObj
        /\ reqs[j].pc = "done"

\* C3: a request with a valid offer whose parameters contain workspaceName
\* and workflowId and no workflowSpec is never answered with 400, and with a
\* configured credential the vendor operation is invoked once with that
\* workspaceName and workflowId.
C3_NamePairAccepted ==
    \A i \in Exchanges :
        LET p == reqs[i].body.wrtcparams IN
        (OfferPresent(reqs[i].body) /\ HasNamePair(p) /\ ~HasSpec(p)) =>
            /\ StatusOf(reqs[i]) # 400
            /\ Configured(apiKey) =>
                /\ Len(reqs[i].workerCalls) = 1
                /\ "workspaceName" \in DOMAIN reqs[i].workerCalls[1]
                /\ "workflowId" \in DOMAIN reqs[i].workerCalls[1]
                /\ reqs[i].workerCalls[1].workspaceName = p.workspaceName
                /\ reqs[i].workerCalls[1].workflowId = p.workflowId

\* C4: a valid request under a configured credential whose vendor call
\* resolved with an answer {sdp, type, context} is answered once, with status
\* 200 and a body equal to that answer.
C4_AnswerReturnedUnchanged ==
    \A i \in Exchanges :
        (/\ ValidRequest(reqs[i].body)
         /\ Configured(apiKey)
         /\ reqs[i].outcome.kind = "resolved"
         /\ reqs[i].outcome.value.kind = "object") =>
            /\ reqs[i].response =
                   [kind |-> "json", status |-> 200,
                    body |-> reqs[i].outcome.value]
            /\ reqs[i].sent = 1

\* C4's case: the vendor call of a request resolved with the answer.
C4_Witness ==
    \E i \in Exchanges :
        /\ reqs[i].outcome = [kind |-> "resolved", value |-> ANSWER]
        /\ reqs[i].pc = "done"

\* C5: a valid request under an unset or empty credential is answered with
\* status 500 and an error body that holds no credential, and invokes no
\* vendor operation.
C5_UnsetCredentialIs500 ==
    \A i \in Exchanges :
        (ValidRequest(reqs[i].body) /\ ~Configured(apiKey)) =>
            /\ StatusOf(reqs[i]) = 500
            /\ DOMAIN reqs[i].response.body = {"error"}
            /\ reqs[i].response.body.error \notin Keys
            /\ NoVendorCall(reqs[i])

\* The checks a request fails, in the words of the validation sequence.
FailsOffer(body) == OfferMissing(body)
FailsParams(body) == ~Identified(body.wrtcparams)
FailsKey == ~Configured(apiKey)

\* C6: a request that fails several of the checks offer, workflow
\* parameters, credential is answered by the first of them it fails: the 400
\* offer error when the offer is invalid, and else the 400 of the workflow
\* parameters, never the 500 of the credential.
C6_FirstFailingCheckAnswers ==
    \A i \in Exchanges :
        LET body == reqs[i].body IN
        body.kind = "object" =>
            /\ (FailsOffer(body) /\ (FailsParams(body) \/ FailsKey)) =>
                   reqs[i].response = ErrorResponse(400, OFFER_ERROR)
            /\ (~FailsOffer(body) /\ FailsParams(body) /\ FailsKey) =>
                   /\ reqs[i].response = ErrorResponse(400, PARAMS_ERROR)
                   /\ StatusOf(reqs[i]) # 500

\* C6's case: with the credential unset, a request with an invalid offer and
\* no parameters and a request with a valid offer and no workflow
\* identification have been answered.
C6_Witness ==
    /\ FailsKey
    /\ \E i, j \in Exchanges :
        /\ FailsOffer(reqs[i].body)
        /\ FailsParams(reqs[i].body)
        /\ reqs[i].pc = "done"
        /\ OfferPresent(reqs[j].body)
        /\ FailsParams(reqs[j].body)
        /\ reqs[j].pc = "done"

\* C7: when the vendor call rejects with an error whose message is a
\* non-empty string m, the request is answered once, with status 500 and the
\* body {error: m}.
C7_VendorMessageForwarded ==
    \A i \in Exchanges :
        (/\ reqs[i].outcome.kind = "rejected"
         /\ Message(reqs[i].outcome.value) \notin {Undef, ""}) =>
            /\ reqs[i].response =
                   ErrorResponse(500, Message(reqs[i].outcome.value))
            /\ reqs[i].sent = 1

\* C7's case: the vendor call of a valid request under a configured
\* credential rejected with the message "boom".
C7_Witness ==
    \E i \in Exchanges :
        /\ ValidRequest(reqs[i].body)
        /\ Configured(apiKey)
        /\ reqs[i].outcome = [kind |-> "rejected",
                              value |-> [kind |-> "Error", message |-> "boom"]]
        /\ reqs[i].pc = "done"

\* The handler of the exchange failed: its vendor call threw or rejected,
\* the body could not be destructured, or the answer could not be sent.
HandlerFailed(ex) ==
    \/ ex.outcome.kind \in {"rejected", "thrown"}
    \/ ex.body.kind = "undefined"
    \/ (ex.outcome.kind = "resolved" /\ ex.outcome.value.kind = "circular")

\* C8: however the vendor call or a step of the handler fails, the request is
\* answered exactly once, with status 500, and with the fallback string as
\* the error when the rejection carries an empty message or none.
C8_EveryFailureAnswered ==
    \A i \in Exchanges :
        HandlerFailed(reqs[i]) =>
            /\ reqs[i].sent = 1
            /\ StatusOf(reqs[i]) = 500
            /\ (/\ reqs[i].outcome.kind \in {"rejected", "thrown"}
                /\ Message(reqs[i].outcome.value) \in {Undef, ""}) =>
                   reqs[i].response = ErrorResponse(500, FALLBACK_ERROR)

\* C9: two runs that differ only in the value of the configured credential
\* and see the same requests and vendor outcomes send the same responses,
\* of init-webrtc and of health; the credential reaches the vendor only as
\* the apiKey of the client, whose other arguments and whose worker calls
\* are the same in both runs.
C9_CredentialNeverFlows ==
    /\ health = twinHealth
    /\ Len(twinReqs) = Len(reqs)
    /\ \A i \in Exchanges :
        /\ reqs[i].response = twinReqs[i].response
        /\ reqs[i].sent = twinReqs[i].sent
        /\ reqs[i].workerCalls = twinReqs[i].workerCalls
        /\ Len(reqs[i].initCalls) = Len(twinReqs[i].initCalls)
        /\ \A k \in 1..Len(reqs[i].initCalls) :
            /\ reqs[i].initCalls[k].apiKey = apiKey
            /\ twinReqs[i].initCalls[k] =
                   [reqs[i].initCalls[k] EXCEPT !.apiKey = twinKey]

\* C9's case: the two runs hold different credentials, a health request was
\* answered, and the vendor resolved one request and rejected another.
C9_Witness ==
    /\ apiKey \in Keys
    /\ twinKey \in Keys
    /\ twinKey # apiKey
    /\ health # NoResponse
    /\ \E i, j \in Exchanges :
        /\ reqs[i].outcome.kind = "resolved"
        /\ StatusOf(reqs[i]) = 200
        /\ reqs[j].outcome.kind = "rejected"
        /\ StatusOf(reqs[j]) = 500

\* What a health response says: the status field "ok", and apiKeyConfigured
\* equal to whether the credential is set to a non-empty value.
HealthTellsCredential ==
    health # NoResponse =>
        /\ health.status = 200
        /\ health.body.status = "ok"
        /\ health.body.apiKeyConfigured = Configured(apiKey)

\* C10: every health response has the status field "ok" and apiKeyConfigured
\* equal to whether the credential is set to a non-empty value, whatever
\* init-webrtc requests came before; answering it invokes no vendor
\* operation and leaves every init-webrtc exchange as it is.
C10_HealthReportsCredential ==
    /\ []HealthTellsCredential
    /\ [][health' # health => reqs' = reqs]_vars

\* C10's case: under an empty credential a health request and an
\* init-webrtc request have been answered.
C10_Witness ==
    /\ apiKey = ""
    /\ health # NoResponse
    /\ \E i \in Exchanges : reqs[i].pc = "done"

\* The request passes the three validations of the handler: its offer, its
\* workflow parameters and the credential.
PassesValidations(body) ==
    /\ body.kind = "object"
    /\ ~OfferInvalid(body.offer)
    /\ ~ParamsInvalid(body.wrtcparams)
    /\ ~Falsy(apiKey)

CallsOncePerRequest ==
    \A i \in Exchanges :
        /\ Len(reqs[i].workerCalls) <= 1
        /\ Len(reqs[i].initCalls) <= 1
        /\ Len(reqs[i].workerCalls) = 1 <=>
               (PassesValidations(reqs[i].body) /\ reqs[i].outcome.kind # "thrown")
        /\ \A j \in Exchanges :
            (reqs[j].body = reqs[i].body /\ reqs[j].outcome = reqs[i].outcome) =>
                /\ reqs[j].response = reqs[i].response
                /\ reqs[j].workerCalls = reqs[i].workerCalls

\* A step invokes no vendor operation for a request that arrived before, so
\* none after its vendor call failed; it changes at most one exchange, and
\* none that is answered or failed.
NoRetryNoInterference ==
    \A i \in Exchanges :
        /\ reqs'[i].workerCalls = reqs[i].workerCalls
        /\ reqs'[i].initCalls = reqs[i].initCalls
        /\ reqs[i].pc # "awaiting" => reqs'[i] = reqs[i]
        /\ reqs'[i] # reqs[i] =>
               \A j \in Exchanges \ {i} : reqs'[j] = reqs[j]

ServerConfig ==
    [requestedRegion |-> "us", requestedPlan |-> "webrtc-gpu-small",
     processingTimeout |-> 600]

\* getConfig(): the configuration of the selected mode, or the Error it
\* throws in custom mode when an input is empty after trimming.
GetConfig(mode, ws, wf) ==
    IF mode = "example"
    THEN [kind |-> "config", mode |-> "example",
          workflowSpec |-> WORKFLOW_SPEC, imageInputName |-> "image",
          streamOutputNames |-> "labels", dataOutputNames |-> "count"]
    ELSE IF Trim(ws) = <<>> \/ Trim(wf) = <<>>
    THEN [kind |-> "throws",
          error |-> [kind |-> "Error", message |-> CONFIG_INPUT_ERROR]]
    ELSE [kind |-> "config", mode |-> "custom",
          workspaceName |-> Trim(ws), workflowId |-> Trim(wf),
          imageInputName |-> "image", streamOutputNames |-> "output_image",
          dataOutputNames |-> "predictions"]

\* baseParams of connectWebcamToRoboflowWebRTC.
BaseParams(config) ==
    [imageInputName |-> config.imageInputName,
     streamOutputNames |-> config.streamOutputNames,
     dataOutputNames |-> config.dataOutputNames,
     requestedRegion |-> ServerConfig.requestedRegion,
     requestedPlan |-> ServerConfig.requestedPlan,
     processingTimeout |-> ServerConfig.processingTimeout]

\* wrtcParams that carry the example specification in both modes.
BuildWrtcParams_AlwaysSpec(config) ==
    IF config.mode = "example"
    THEN BaseParams(config) @@ ("workflowSpec" :> config.workflowSpec)
    ELSE BaseParams(config) @@ ("workflowSpec" :> WORKFLOW_SPEC)
                            @@ ("workspaceName" :> config.workspaceName)
                            @@ ("workflowId" :> config.workflowId)

\* wrtcParams: the base parameters and the identification of the mode.
BuildWrtcParams(config) ==
    IF config.mode = "example"
    THEN BaseParams(config) @@ ("workflowSpec" :> config.workflowSpec)
    ELSE BaseParams(config) @@ ("workspaceName" :> config.workspaceName)
                            @@ ("workflowId" :> config.workflowId)

\* if (activeConnection) of start().
AlreadyConnected(active) == active # NULL

\* if (!activeConnection) of stop() and of the teardown listeners.
NotConnected(active) == active = NULL

\* The catch block of start(), run on the controls cur: err.message
\* .includes throws when err is undefined or has no message, and nothing
\* after it runs; else the status shows the error, the start control is
\* enabled and the reference is cleared.
StartCatch(err, cur) ==
    IF Message(err) = Undef
    THEN [cur EXCEPT !.threw = TRUE]
    ELSE [threw |-> FALSE,
          statusText |-> IF IncludesApiKey(Message(err))
                         THEN API_KEY_STATUS
                         ELSE "Error: " \o Message(err),
          startDisabled |-> FALSE,
          activeConnection |-> NULL]

\* A finally block that resets the controls and leaves the data counter
\* and preview as they are.
StopFinally_NoCounterReset(cur) ==
    [activeConnection |-> NULL, videoSrc |-> NULL, startDisabled |-> FALSE,
     stopDisabled |-> TRUE, statusText |-> IDLE,
     dataMessageCount |-> cur.dataMessageCount,
     dataPreview |-> cur.dataPreview]

\* The finally block of stop(), run on the page values cur.
StopFinally(cur) ==
    [activeConnection |-> NULL, videoSrc |-> NULL, startDisabled |-> FALSE,
     stopDisabled |-> TRUE, statusText |-> IDLE, dataMessageCount |-> 0,
     dataPreview |-> ""]

\* The activation of stop() after its awaited cleanup settled: the try
\* logs, the catch logs, and the promise of stop() is fulfilled.
StopSettled(act, ok) ==
    [act EXCEPT !.pc = "done",
                !.cleanup = IF ok THEN "resolved" ELSE "rejected",
                !.promise = "fulfilled"]

\* An activation of start(): where it is, the wrtcParams it built, the
\* connection it got, and how it ended.
StartActivation(pc, params, result) ==
    [pc |-> pc, params |-> params, conn |-> NULL, result |-> result]

\* The events of the behaviour so far; an invocation of start(), which
\* begins a connect sequence, counts twice.
Events == Len(starts) + Len(starts) + Len(stops) + teardowns

NoParams == [kind |-> "none"]

\* The controls the catch block of start() reads and writes.
Controls == [threw |-> FALSE, statusText |-> statusText,
             startDisabled |-> startDisabled,
             activeConnection |-> activeConnection]

\* The catch block of start() runs in activation i with err.
CatchInStart(i, err, acts) ==
    LET after == StartCatch(err, Controls) IN
    /\ statusText' = after.statusText
    /\ startDisabled' = after.startDisabled
    /\ activeConnection' = after.activeConnection
    /\ starts' = [acts EXCEPT ![i].pc = IF after.threw THEN "threw" ELSE "done",
                              ![i].result = IF after.threw THEN "threw" ELSE "error"]

\* start() is invoked: it returns at once when a connection is held; else
\* it disables the start control, reads the configuration, and awaits the
\* camera, or runs its catch block on the configuration error.
Start ==
    /\ Events + 1 < MaxEvents
    /\ IF AlreadyConnected(activeConnection)
       THEN /\ warnings' = warnings + 1
            /\ starts' = Append(starts, StartActivation("done", NoParams, "noop"))
            /\ UNCHANGED <<activeConnection, startDisabled, statusText>>
       ELSE LET config == GetConfig(workflowMode, workspaceField, workflowField)
                i == Len(starts) + 1
            IN
            /\ UNCHANGED warnings
            /\ IF config.kind = "throws"
               THEN LET after == StartCatch(config.error,
                                            [Controls EXCEPT !.startDisabled = TRUE,
                                                             !.statusText = CONNECTING])
                    IN
                    /\ statusText' = after.statusText
                    /\ startDisabled' = after.startDisabled
                    /\ activeConnection' = after.activeConnection
                    /\ starts' = Append(starts, StartActivation("done", NoParams, "error"))
               ELSE /\ startDisabled' = TRUE
                    /\ statusText' = CONNECTING
                    /\ starts' = Append(starts,
                                        StartActivation("useCamera",
                                                        BuildWrtcParams(config),
                                                        "pending"))
                    /\ UNCHANGED activeConnection
    /\ UNCHANGED <<serverVars, workflowMode, workspaceField, workflowField,
                   stopDisabled, videoSrc, dataMessageCount, dataPreview, conns,
                   useStreamCalls, stops, teardowns>>

\* streams.useCamera resolves in activation i: webrtc.useStream is called
\* with the wrtcParams built at the invocation.
UseCameraResolves(i) ==
    /\ starts[i].pc = "useCamera"
    /\ useStreamCalls' = Append(useStreamCalls, starts[i].params)
    /\ starts' = [starts EXCEPT ![i].pc = "useStream"]
    /\ UNCHANGED <<serverVars, workflowMode, workspaceField, workflowField,
                   activeConnection, startDisabled, stopDisabled, statusText,
                   videoSrc, dataMessageCount, dataPreview, conns, stops,
                   teardowns, warnings>>

\* An awaited call of activation i rejects with err: streams.useCamera,
\* webrtc.useStream or connection.remoteStream().
AwaitRejects(i, err) ==
    /\ starts[i].pc \in {"useCamera", "useStream", "remoteStream"}
    /\ CatchInStart(i, err, starts)
    /\ UNCHANGED <<serverVars, workflowMode, workspaceField, workflowField,
                   stopDisabled, videoSrc, dataMessageCount, dataPreview, conns,
                   useStreamCalls, stops, teardowns, warnings>>

\* webrtc.useStream resolves in activation i with a new connection: the
\* reference is set and connection.remoteStream() is awaited.
UseStreamResolves(i) ==
    /\ starts[i].pc = "useStream"
    /\ conns' = Append(conns, [cleanups |-> 0])
    /\ activeConnection' = Len(conns) + 1
    /\ starts' = [starts EXCEPT ![i].pc = "remoteStream",
                                ![i].conn = Len(conns) + 1]
    /\ UNCHANGED <<serverVars, workflowMode, workspaceField, workflowField,
                   startDisabled, stopDisabled, statusText, videoSrc,
                   dataMessageCount, dataPreview, useStreamCalls, stops,
                   teardowns, warnings>>

\* connection.remoteStream() resolves in activation i: the stream is
\* attached to the video element and videoEl.play() is awaited.
RemoteStreamResolves(i) ==
    /\ starts[i].pc = "remoteStream"
    /\ videoSrc' = starts[i].conn
    /\ starts' = [starts EXCEPT ![i].pc = "play"]
    /\ UNCHANGED <<serverVars, workflowMode, workspaceField, workflowField,
                   activeConnection, startDisabled, stopDisabled, statusText,
                   dataMessageCount, dataPreview, conns, useStreamCalls, stops,
                   teardowns, warnings>>

\* videoEl.play() settles in activation i, resolved or rejected (the inner
\* catch logs): the status shows the connection and the stop control is
\* enabled.
PlaySettles(i, ok) ==
    /\ starts[i].pc = "play"
    /\ statusText' = CONNECTED
    /\ stopDisabled' = FALSE
    /\ starts' = [starts EXCEPT ![i].pc = "done",
                                ![i].result = "connected"]
    /\ UNCHANGED <<serverVars, workflowMode, workspaceField, workflowField,
                   activeConnection, startDisabled, videoSrc, dataMessageCount,
                   dataPreview, conns, useStreamCalls, stops, teardowns,
                   warnings>>

\* stop() is invoked: it returns at once when no connection is held; else
\* it disables the stop control and awaits the cleanup of the connection.
Stop ==
    /\ Events < MaxEvents
    /\ IF NotConnected(activeConnection)
       THEN /\ stops' = Append(stops, [pc |-> "done", conn |-> NULL,
                                       cleanup |-> "none", promise |-> "fulfilled"])
            /\ UNCHANGED <<stopDisabled, statusText, conns>>
       ELSE /\ stopDisabled' = TRUE
            /\ statusText' = STOPPING
            /\ conns' = [conns EXCEPT ![activeConnection].cleanups = @ + 1]
            /\ stops' = Append(stops, [pc |-> "cleanup", conn |-> activeConnection,
                                       cleanup |-> "pending", promise |-> "pending"])
    /\ UNCHANGED <<serverVars, workflowMode, workspaceField, workflowField,
                   activeConnection, startDisabled, videoSrc, dataMessageCount,
                   dataPreview, useStreamCalls, starts, teardowns, warnings>>

\* The page values the finally block of stop() writes.
PageValues ==
    [activeConnection |-> activeConnection, videoSrc |-> videoSrc,
     startDisabled |-> startDisabled, stopDisabled |-> stopDisabled,
     statusText |-> statusText, dataMessageCount |-> dataMessageCount,
     dataPreview |-> dataPreview]

\* The cleanup awaited by activation i of stop() settles, resolved or
\* rejected: the finally block resets the page.
CleanupSettles(i, ok) ==
    /\ stops[i].pc = "cleanup"
    /\ LET after == StopFinally(PageValues) IN
       /\ activeConnection' = after.activeConnection
       /\ videoSrc' = after.videoSrc
       /\ startDisabled' = after.startDisabled
       /\ stopDisabled' = after.stopDisabled
       /\ statusText' = after.statusText
       /\ dataMessageCount' = after.dataMessageCount
       /\ dataPreview' = after.dataPreview
    /\ stops' = [stops EXCEPT ![i] = StopSettled(@, ok)]
    /\ UNCHANGED <<serverVars, workflowMode, workspaceField, workflowField,
                   conns, useStreamCalls, starts, teardowns, warnings>>

\* A teardown listener that also clears the reference.
TeardownListener_ClearsReference ==
    /\ Events < MaxEvents
    /\ teardowns' = teardowns + 1
    /\ conns' = IF NotConnected(activeConnection)
                THEN conns
                ELSE [conns EXCEPT ![activeConnection].cleanups = @ + 1]
    /\ activeConnection' = NULL
    /\ UNCHANGED <<serverVars, workflowMode, workspaceField, workflowField,
                   startDisabled, stopDisabled, statusText, videoSrc,
                   dataMessageCount, dataPreview, useStreamCalls, starts,
                   stops, warnings>>

\* A teardown listener that invokes cleanup twice.
TeardownListener_CleansTwice ==
    /\ Events < MaxEvents
    /\ teardowns' = teardowns + 1
    /\ conns' = IF NotConnected(activeConnection)
                THEN conns
                ELSE [conns EXCEPT ![activeConnection].cleanups = @ + 2]
    /\ UNCHANGED <<serverVars, workflowMode, workspaceField, workflowField,
                   activeConnection, startDisabled, stopDisabled, statusText,
                   videoSrc, dataMessageCount, dataPreview, useStreamCalls,
                   starts, stops, warnings>>

\* The body of the two teardown listeners: cleanup is invoked on the
\* connection held, if any, and not awaited.
TeardownListener ==
    /\ Events < MaxEvents
    /\ teardowns' = teardowns + 1
    /\ conns' = IF NotConnected(activeConnection)
                THEN conns
                ELSE [conns EXCEPT ![activeConnection].cleanups = @ + 1]
    /\ UNCHANGED <<serverVars, workflowMode, workspaceField, workflowField,
                   activeConnection, startDisabled, stopDisabled, statusText,
                   videoSrc, dataMessageCount, dataPreview, useStreamCalls,
                   starts, stops, warnings>>

\* pagehide fires.
Pagehide == TeardownListener

\* beforeunload fires.
Beforeunload == TeardownListener

\* A data channel message of a connection that was not cleaned up arrives:
\* the onData callback counts and shows it.
OnData ==
    /\ dataMessageCount < MaxData
    /\ \E c \in 1..Len(conns) : conns[c].cleanups = 0
    /\ dataMessageCount' = dataMessageCount + 1
    /\ dataPreview' = "data"
    /\ UNCHANGED <<serverVars, workflowMode, workspaceField, workflowField,
                   activeConnection, startDisabled, stopDisabled, statusText,
                   videoSrc, conns, useStreamCalls, starts, stops, teardowns,
                   warnings>>

\* A tab button is clicked.
SwitchTab(tab) ==
    /\ workflowMode # tab
    /\ workflowMode' = tab
    /\ UNCHANGED <<serverVars, workspaceField, workflowField, activeConnection,
                   startDisabled, stopDisabled, statusText, videoSrc,
                   dataMessageCount, dataPreview, conns, useStreamCalls, starts,
                   stops, teardowns, warnings>>

\* The texts the user left in the inputs of the custom tab.
FieldTexts == {<<Spaces, PaddedWf>>, <<PaddedWs, PaddedWf>>}

\* The page is loaded; the server is not part of this specification.
InitPage ==
    /\ apiKey = Undef
    /\ serverUrl = Undef
    /\ twinKey = Undef
    /\ reqs = <<>>
    /\ twinReqs = <<>>
    /\ health = NoResponse
    /\ twinHealth = NoResponse
    /\ \E t \in FieldTexts : PageLoaded(t[1], t[2])

NextPage ==
    \/ Start
    \/ \E i \in 1..Len(starts) : UseCameraResolves(i)
    \/ \E i \in 1..Len(starts), err \in PageErrors : AwaitRejects(i, err)
    \/ \E i \in 1..Len(starts) : UseStreamResolves(i)
    \/ \E i \in 1..Len(starts) : RemoteStreamResolves(i)
    \/ \E i \in 1..Len(starts), ok \in BOOLEAN : PlaySettles(i, ok)
    \/ Stop
    \/ \E i \in 1..Len(stops), ok \in BOOLEAN : CleanupSettles(i, ok)
    \/ Pagehide
    \/ Beforeunload
    \/ OnData
    \/ \E tab \in {"example", "custom"} : SwitchTab(tab)

SpecPage == InitPage /\ [][NextPage]_vars

\* ------------------------------------------------------------------------
\* The page: the words of the claims
\* ------------------------------------------------------------------------

Starts == 1..Len(starts)
Stops == 1..Len(stops)
Connections == 1..Len(conns)

\* Activation i of start() is between its invocation and its end.
StartInProgress(i) == starts[i].pc \in {"useCamera", "useStream", "remoteStream", "play"}

\* Activation i of stop() awaits the cleanup.
StopInProgress(i) == stops[i].pc = "cleanup"

\* C12: of two invocations of start() with no stop() between them, the first
\* of which is connecting or connected, the second is a no-op, and the
\* vendor stream-connection call is made once; so also when the first has
\* not settled yet.
C12_SecondStartIsNoop ==
    \A i, j \in Starts :
        (/\ i < j
         /\ Len(stops) = 0
         /\ starts[i].result \in {"pending", "connected"}) =>
            /\ starts[j].result = "noop"
            /\ Len(useStreamCalls) <= 1

\* Activation i of start() ends in this step by a rejection of its connect
\* attempt: the configuration error, or a rejected awaited call.
StartEndsRejected(i) ==
    /\ starts'[i].result \in {"error", "threw"}
    /\ i \in Starts => starts[i].result = "pending"

\* C13: when an activation of start() ends by a rejection of its connect
\* attempt, whatever the rejected value, the start control is enabled,
\* activeConnection is null and the step makes no connect call.
C13_RejectionResets ==
    [][\A i \in 1..Len(starts') :
           StartEndsRejected(i) =>
               /\ startDisabled' = FALSE
               /\ activeConnection' = NULL
               /\ useStreamCalls' = useStreamCalls]_vars

\* The cleanup awaited by activation i of stop() settles in this step.
StopCleanupSettles(i) == stops[i].pc = "cleanup" /\ stops'[i].pc = "done"

\* C14: when the cleanup awaited by stop() settles, resolved or rejected,
\* activeConnection is null, the video source is cleared, the start control
\* is enabled, the stop control is disabled, the status is 'Idle', the data
\* counter is 0 and the preview empty, and the promise of stop() is
\* fulfilled.
C14_StopResetsWhateverCleanupDoes ==
    [][\A i \in Stops :
           StopCleanupSettles(i) =>
               /\ activeConnection' = NULL
               /\ videoSrc' = NULL
               /\ startDisabled' = FALSE
               /\ stopDisabled' = TRUE
               /\ statusText' = IDLE
               /\ dataMessageCount' = 0
               /\ dataPreview' = ""
               /\ stops'[i].promise = "fulfilled"]_vars

\* C14's case: stop() was invoked on a connection, its cleanup rejected, and
\* stop() has ended.
C14_Witness ==
    \E i \in Stops :
        /\ stops[i].conn # NULL
        /\ stops[i].cleanup = "rejected"
        /\ stops[i].pc = "done"

\* What the user sees of the page, and the reference.
pageState ==
    <<activeConnection, startDisabled, stopDisabled, statusText, videoSrc,
      dataMessageCount, dataPreview>>

\* start() is invoked in this step, stop() is invoked in this step.
StartInvoked == Len(starts') = Len(starts) + 1
StopInvoked == Len(stops') = Len(stops) + 1

\* No activation of start() is in progress while a cleanup awaited by stop()
\* is in progress.
NoStartDuringStop ==
    \A i \in Starts, j \in Stops : ~(StartInProgress(i) /\ StopInProgress(j))

\* A start() invoked while activeConnection is non-null makes no connect
\* call, now or later, and changes nothing on the page.
GuardedStartDoesNothing ==
    (StartInvoked /\ activeConnection # NULL) =>
        /\ starts'[Len(starts')].result = "noop"
        /\ useStreamCalls' = useStreamCalls
        /\ conns' = conns
        /\ pageState' = pageState

\* A stop() invoked while activeConnection is null does nothing.
GuardedStopDoesNothing ==
    (StopInvoked /\ activeConnection = NULL) =>
        /\ stops'[Len(stops')].pc = "done"
        /\ conns' = conns
        /\ pageState' = pageState

\* C15: connect and disconnect exclude each other through activeConnection:
\* a start() invoked while it is non-null makes no connect call and changes
\* no page state, a stop() invoked while it is null does nothing, and no
\* start() is in progress while a stop()'s cleanup is in progress.
C15_ConnectDisconnectExclusive ==
    /\ []NoStartDuringStop
    /\ [][GuardedStartDoesNothing /\ GuardedStopDoesNothing]_vars

\* The lifecycle state the status line shows; an error status is idle.
Lifecycle ==
    CASE statusText = CONNECTING -> "connecting"
      [] statusText = CONNECTED -> "connected"
      [] statusText = STOPPING -> "stopping"
      [] OTHER -> "idle"

\* The lifecycle changes of the page.
LifecycleEdges ==
    {<<"idle", "connecting">>, <<"connecting", "connected">>,
     <<"connecting", "idle">>, <<"connected", "stopping">>,
     <<"stopping", "idle">>}

\* The page shows 'Connected' with the stop control enabled and holds no
\* connection.
ConnectedWithoutConnection ==
    /\ statusText = CONNECTED
    /\ stopDisabled = FALSE
    /\ activeConnection = NULL

\* C16: under every interleaving of start(), stop() and the settling of
\* their promises the lifecycle changes only along idle -> connecting ->
\* connected -> stopping -> idle and connecting -> idle, and the page never
\* shows 'Connected' with the stop control enabled while activeConnection is
\* null.
C16_LifecycleEdgesOnly ==
    /\ []~ConnectedWithoutConnection
    /\ [][Lifecycle' # Lifecycle => <<Lifecycle, Lifecycle'>> \in LifecycleEdges]_vars

\* Activation i of start(), which made a connect attempt, ends in this step.
StartAttemptEnds(i) ==
    /\ starts'[i].pc \in {"done", "threw"}
    /\ starts'[i].result # "noop"
    /\ i \in Starts => StartInProgress(i)

\* C17: when the cleanup of a stop() settles the page is idle
\* (activeConnection null, start control enabled, status 'Idle'), and when
\* the connect attempt of a start() has settled and start() ends the page is
\* connected or idle, not connecting or stopping.
C17_SettlingLeavesNoTransientState ==
    [][/\ \A i \in Stops :
              StopCleanupSettles(i) =>
                  /\ activeConnection' = NULL
                  /\ startDisabled' = FALSE
                  /\ statusText' = IDLE
       /\ \A i \in 1..Len(starts') :
              StartAttemptEnds(i) => Lifecycle' \in {"connected", "idle"}]_vars

\* pagehide or beforeunload fires in this step.
TornDown == teardowns' = teardowns + 1

\* C18: when pagehide or beforeunload fires, cleanup is invoked on the
\* active connection if and only if activeConnection is non-null; the
\* listener awaits nothing and changes neither activeConnection nor a
\* control nor the status.
C18_TeardownCleansActiveOnly ==
    [][TornDown =>
           /\ activeConnection # NULL =>
                  conns' = [conns EXCEPT ![activeConnection].cleanups = @ + 1]
           /\ activeConnection = NULL => conns' = conns
           /\ pageState' = pageState
           /\ starts' = starts
           /\ stops' = stops]_vars

\* C18's case: a teardown event fired while a connection was held, and its
\* cleanup was invoked by the listener (stop() was never invoked).
C18_Witness ==
    /\ teardowns > 0
    /\ Len(stops) = 0
    /\ activeConnection # NULL
    /\ conns[activeConnection].cleanups > 0

\* The identifications of wrtcParams p.
HasWorkflowSpec(p) == "workflowSpec" \in DOMAIN p
HasWorkflowNames(p) == "workspaceName" \in DOMAIN p \/ "workflowId" \in DOMAIN p

\* wrtcParams p carry the identification of one mode: the specification and
\* no name, or two non-empty trimmed names and no specification.
OneIdentification(p) ==
    \/ /\ HasWorkflowSpec(p)
       /\ ~HasWorkflowNames(p)
       /\ p.workflowSpec = WORKFLOW_SPEC
    \/ /\ ~HasWorkflowSpec(p)
       /\ {"workspaceName", "workflowId"} \subseteq DOMAIN p
       /\ p.workspaceName # <<>> /\ Trim(p.workspaceName) = p.workspaceName
       /\ p.workflowId # <<>> /\ Trim(p.workflowId) = p.workflowId

\* The start() invoked in this step, with no connection held, builds the
\* parameters of the mode selected at the invocation, or none and makes no
\* call when a custom field is empty.
StartBuildsParamsOfMode ==
    (StartInvoked /\ activeConnection = NULL) =>
        LET act == starts'[Len(starts')] IN
        IF workflowMode = "example"
        THEN HasWorkflowSpec(act.params) /\ ~HasWorkflowNames(act.params)
        ELSE IF Trim(workspaceField) = <<>> \/ Trim(workflowField) = <<>>
        THEN act.params = NoParams /\ act.pc = "done"
        ELSE /\ ~HasWorkflowSpec(act.params)
             /\ act.params.workspaceName = Trim(workspaceField)
             /\ act.params.workflowId = Trim(workflowField)

\* A vendor stream-connection call made in this step passes the parameters
\* its start() built.
CallPassesBuiltParams ==
    useStreamCalls' # useStreamCalls =>
        \E i \in Starts :
            /\ starts[i].pc = "useCamera"
            /\ starts'[i].pc = "useStream"
            /\ useStreamCalls' = Append(useStreamCalls, starts[i].params)

\* C19: the wrtcParams of every vendor stream-connection call contain
\* exactly one workflow identification: workflowSpec and no name in example
\* mode, two non-empty trimmed names and no workflowSpec in custom mode; in
\* custom mode with a field empty the call is not made.
C19_OneWorkflowIdentification ==
    /\ [](\A k \in 1..Len(useStreamCalls) : OneIdentification(useStreamCalls[k]))
    /\ [][StartBuildsParamsOfMode /\ CallPassesBuiltParams]_vars

\* C19's case: a call was made in custom mode with names the user typed with
\* surrounding white space.
C19_Witness ==
    \E k \in 1..Len(useStreamCalls) :
        /\ ~HasWorkflowSpec(useStreamCalls[k])
        /\ useStreamCalls[k].workspaceName = Trim(workspaceField)
        /\ workspaceField # Trim(workspaceField)

\* C20: every connection a resolved vendor stream-connection call returned
\* is the value of activeConnection or has had its cleanup invoked.
C20_NoConnectionDropped ==
    \A c \in Connections : activeConnection = c \/ conns[c].cleanups > 0

\* C21: the cleanup of a connection is invoked at most once over any
\* sequence of stop() invocations, pagehide events and beforeunload events.
C21_CleanupAtMostOnce ==
    \A c \in Connections : conns[c].cleanups <= 1

\* The invocations of stop() that found connection c held.
StopsOn(c) == {i \in Stops : stops[i].conn = c}

\* The cleanups of a connection are not more than the invocations of stop()
\* that found it held and the teardown events.
CleanupsWithinEvents ==
    \A c \in Connections : conns[c].cleanups <= Cardinality(StopsOn(c)) + teardowns

\* A step invokes cleanup at most once, on the connection held, and only
\* when stop() is invoked or a teardown event fires.
OneCleanupPerEvent ==
    \A c \in Connections :
        conns'[c].cleanups # conns[c].cleanups =>
            /\ conns'[c].cleanups = conns[c].cleanups + 1
            /\ activeConnection = c
            /\ StopInvoked \/ TornDown

\* C21 as amended: each invocation of stop() and each pagehide or
\* beforeunload event invokes the cleanup of the held connection once, so a
\* connection's cleanup may be invoked once per such event and not more.
C21_OneCleanupPerStopOrTeardown ==
    /\ []CleanupsWithinEvents
    /\ [][OneCleanupPerEvent]_vars

\* C21's case: beforeunload and pagehide both fired while a connection was
\* held, and its cleanup was invoked by each.
C21_Witness ==
    /\ teardowns = 2
    /\ activeConnection # NULL
    /\ conns[activeConnection].cleanups = 2

====
